---- MODULE Spec2Model ----
(***************************************************************************)
(* Model of gonab's reconstruction pipeline (db/db.go): MakeBinaries (the  *)
(* Binary Grouper with its subject parser), the aggregate query at the     *)
(* head of MakeReleases (the Completeness Evaluator), the promotion loop   *)
(* of MakeReleases (the Release Promoter), makeBinaryHash and              *)
(* cleanReleaseName.                                                       *)
(*                                                                         *)
(* A Go string is a sequence of bytes.  A byte is written as a one-        *)
(* character TLA+ string for ASCII ("a", "/", "\n", ...) and as "x0B",     *)
(* "xC2", "xA7", ... for the other bytes.                                  *)
(***************************************************************************)
EXTENDS Integers, Sequences, FiniteSets, TLC

(***************************************************************************)
(* Strings                                                                 *)
(***************************************************************************)

\* strings.Index(s, sub) >= 0 at 1-based position i
MatchAt(s, sub, i) ==
    /\ i >= 1
    /\ i + Len(sub) - 1 <= Len(s)
    /\ \A k \in 1..Len(sub) : s[i + k - 1] = sub[k]

\* strings.Index(s, sub) # -1
Contains(s, sub) == \E i \in 1..Len(s) : MatchAt(s, sub, i)

\* strings.Replace(s, old, new, -1) for a non-empty old: the leftmost
\* non-overlapping occurrences of old, scanning from byte i on.
RECURSIVE ReplaceFrom(_, _, _, _)
ReplaceFrom(s, old, new, i) ==
    IF i > Len(s) THEN << >>
    ELSE IF MatchAt(s, old, i)
         THEN new \o ReplaceFrom(s, old, new, i + Len(old))
         ELSE << s[i] >> \o ReplaceFrom(s, old, new, i + 1)

Replace(s, old, new) == ReplaceFrom(s, old, new, 1)

\* for _, c := range list { name = strings.Replace(name, c, new, -1) }
RECURSIVE ReplaceEach(_, _, _, _)
ReplaceEach(s, list, new, n) ==
    IF n > Len(list) THEN s
    ELSE ReplaceEach(Replace(s, list[n], new), list, new, n + 1)

\* the source's "§", "¨", "©", "Ö" are the UTF-8 byte pairs C2 A7, C2 A8,
\* C2 A9, C3 96
removeChars ==
    << <<"#">>, <<"@">>, <<"$">>, <<"%">>, <<"^">>,
       <<"xC2", "xA7">>, <<"xC2", "xA8">>, <<"xC2", "xA9">>, <<"xC3", "x96">> >>

spaceChars == << <<"_">>, <<".">>, <<"-">> >>

cleanReleaseName_DropSpaceChars(name) ==
    ReplaceEach(ReplaceEach(name, removeChars, << >>, 1), spaceChars, << >>, 1)

\* Strip bad chars out of name for API to match on
cleanReleaseName(name) ==
    ReplaceEach(ReplaceEach(name, removeChars, << >>, 1), spaceChars, <<" ">>, 1)

(***************************************************************************)
(* Subject parser: the two regular expressions of MakeBinaries             *)
(***************************************************************************)

UpperAlpha ==
    <<"A", "B", "C", "D", "E", "F", "G", "H", "I", "J", "K", "L", "M", "N", "O", "P", "Q", "R", "S", "T", "U", "V", "W", "X", "Y", "Z">>

LowerAlpha ==
    <<"a", "b", "c", "d", "e", "f", "g", "h", "i", "j", "k", "l", "m", "n", "o", "p", "q", "r", "s", "t", "u", "v", "w", "x", "y", "z">>

\* the lower-case letter of an ASCII letter
Lower(c) ==
    IF \E n \in 1..26 : UpperAlpha[n] = c
    THEN LowerAlpha[CHOOSE n \in 1..26 : UpperAlpha[n] = c]
    ELSE c

IsDigit(c) == c \in {"0", "1", "2", "3", "4", "5", "6", "7", "8", "9"}

\* unicode.IsSpace of a one-byte character: \t, \n, \v, \f, \r, space
IsSpace(c) == c \in {" ", "\t", "\n", "x0B", "\f", "\r"}

\* the UTF-8 encodings of the other characters unicode.IsSpace holds for:
\* U+0085, U+00A0, U+1680, U+2000..U+200A, U+2028, U+2029, U+202F, U+205F,
\* U+3000
SpaceRunes ==
    { <<"xC2", "x85">>, <<"xC2", "xA0">>, <<"xE1", "x9A", "x80">>,
      <<"xE2", "x80", "xA8">>, <<"xE2", "x80", "xA9">>,
      <<"xE2", "x80", "xAF">>, <<"xE2", "x81", "x9F">>,
      <<"xE3", "x80", "x80">> } \cup
    { <<"xE2", "x80", b>> :
        b \in {"x80", "x81", "x82", "x83", "x84", "x85", "x86", "x87", "x88",
               "x89", "x8A"} }

\* s[lo..hi] are all digits
Digits(s, lo, hi) == hi <= Len(s) /\ \A n \in lo..hi : IsDigit(s[n])

\* "." of a regular expression: any character but a line feed
NoNewline(s, lo, hi) == \A n \in lo..hi : s[n] # "\n"

\* The characters a lower-case literal c of a (?i) expression matches, by
\* unicode.SimpleFold: c, its upper-case letter, and for k and s also
\* U+212A (Kelvin sign, E2 84 AA) and U+017F (long s, C5 BF).
FoldsOf(c) ==
    { <<x>> : x \in {c} \cup { UpperAlpha[n] : n \in { m \in 1..26 : LowerAlpha[m] = c } } }
    \cup (IF c = "k" THEN { <<"xE2", "x84", "xAA">> } ELSE {})
    \cup (IF c = "s" THEN { <<"xC5", "xBF">> } ELSE {})

\* the characters of lit from the n-th on match from byte i on
RECURSIVE MatchFoldFrom(_, _, _, _)
MatchFoldFrom(s, lit, n, i) ==
    IF n > Len(lit) THEN TRUE
    ELSE \E f \in FoldsOf(lit[n]) :
           MatchAt(s, f, i) /\ MatchFoldFrom(s, lit, n + 1, i + Len(f))

\* a literal of a (?i) expression at position i
MatchAtFold(s, lit, i) == i >= 1 /\ MatchFoldFrom(s, lit, 1, i)

\* the literal alternatives of the extension group, folded to lower case
FixedExts ==
    { <<"s", "a", "m", "p", "l", "e">>, <<"m", "k", "v">>, <<"a", "v", "i">>,
      <<"m", "p", "4">>, <<"v", "o", "l">>, <<"o", "g", "m">>,
      <<"p", "a", "r">>, <<"r", "a", "r">>, <<"s", "f", "v">>,
      <<"n", "f", "o">>, <<"n", "z", "b">>, <<"s", "r", "t">>,
      <<"a", "s", "s">>, <<"m", "p", "g">>, <<"t", "x", "t">>,
      <<"z", "i", "p">>, <<"w", "m", "v">>, <<"s", "s", "a">>, <<"7", "z">>,
      <<"t", "a", "r">>, <<"m", "o", "v">>, <<"d", "i", "v", "x">>,
      <<"m", "2", "t", "s">>, <<"r", "m", "v", "b">>, <<"i", "s", "o">>,
      <<"d", "m", "g">>, <<"s", "u", "b">>, <<"i", "d", "x">>, <<"r", "m">>,
      <<"a", "c", "3">> }

\* (sample|mkv|...|r\d{1,3}|...|t\d{1,2}|u\d{1,3}) matches at position i
ExtAt(s, i) ==
    \/ \E e \in FixedExts : MatchAtFold(s, e, i)
    \/ /\ i + 1 <= Len(s)
       /\ Lower(s[i]) \in {"r", "t", "u"}
       /\ IsDigit(s[i + 1])

\* \d{1,3}\/\d{1,3} at position i with a and b digits
PartsAt(s, i, a, b) ==
    /\ Digits(s, i, i + a - 1)
    /\ i + a <= Len(s)
    /\ s[i + a] = "/"
    /\ Digits(s, i + a + 1, i + a + b)

\* \"(?P<name>.*?)\.(ext): the quote at j, the period at k
NameAt(s, j, k) ==
    /\ s[j] = "\""
    /\ NoNewline(s, j + 1, k - 1)
    /\ s[k] = "."
    /\ ExtAt(s, k + 1)

\* .*?\"(?P<name>.*?)\.(ext) matches from position e on
TailFrom(s, e) ==
    \E j \in e..Len(s) : /\ NoNewline(s, e, j - 1)
                         /\ \E k \in (j + 1)..Len(s) : NameAt(s, j, k)

\* The expression r matches with the parts group at i, a and b digits.
\* r is not anchored: the match begins at i or before it on the same line.
PrimaryAt(s, i, a, b) ==
    /\ PartsAt(s, i, a, b)
    /\ TailFrom(s, i + a + b + 1)

Min(S) == CHOOSE x \in S : \A y \in S : x <= y
Max(S) == CHOOSE x \in S : \A y \in S : x >= y

SubStr(s, lo, hi) == IF lo > hi THEN << >> ELSE SubSeq(s, lo, hi)

\* rc.FindStringSubmatchMap(p.Subject): the named groups of the leftmost
\* match, each quantifier resolved in the expression's order of preference
\* (lazy .*? shortest first, greedy \d{1,3} longest first).
FindStringSubmatchMap(s) ==
    LET starts == { i \in 1..Len(s) :
                      \E a \in 1..3, b \in 1..3 : PrimaryAt(s, i, a, b) }
    IN  IF starts = {} THEN [matched |-> FALSE, parts |-> << >>, name |-> << >>]
        ELSE
        LET i  == Min(starts)
            a  == Max({ x \in 1..3 : \E b \in 1..3 : PrimaryAt(s, i, x, b) })
            b  == Max({ y \in 1..3 : PrimaryAt(s, i, a, y) })
            e  == i + a + b + 1
            j  == Min({ x \in e..Len(s) :
                          /\ NoNewline(s, e, x - 1)
                          /\ \E k \in (x + 1)..Len(s) : NameAt(s, x, k) })
            k  == Min({ y \in (j + 1)..Len(s) : NameAt(s, j, y) })
        IN  [matched |-> TRUE,
             parts   |-> SubStr(s, i, i + a + b),
             name    |-> SubStr(s, j + 1, k - 1)]

\* the separators of PartRegex's four alternatives, folded to lower case
PartSeps == { <<"/">>, <<" ", "o", "f", " ">>, <<"-">>, <<"~">> }

\* PartRegex matches with its opening character at i: a digits, separator
\* sep, b digits, then the closing character
PartRegexAt(s, i, a, sep, b) ==
    /\ s[i] \in {"[", "(", " "}
    /\ Digits(s, i + 1, i + a)
    /\ MatchAtFold(s, sep, i + a + 1)
    /\ Digits(s, i + a + Len(sep) + 1, i + a + Len(sep) + b)
    /\ i + a + Len(sep) + b + 1 <= Len(s)
    /\ s[i + a + Len(sep) + b + 1] \in {")", "]", " "}

\* PartRegex.FindStringSubmatch(p.Subject): partmatch # nil and partmatch[1]
PartRegexFind(s) ==
    LET cands == { c \in (1..Len(s)) \X (1..3) \X PartSeps \X (1..3) :
                     PartRegexAt(s, c[1], c[2], c[3], c[4]) }
    IN  IF cands = {} THEN [matched |-> FALSE, parts |-> << >>]
        ELSE
        LET i == Min({ c[1] : c \in cands })
            c == CHOOSE x \in cands : x[1] = i
        IN  [matched |-> TRUE,
             parts   |-> SubStr(s, i + 1, i + c[2] + Len(c[3]) + c[4])]

RECURSIVE TrimLeft(_)
TrimLeft(s) ==
    IF s # << >> /\ IsSpace(Head(s)) THEN TrimLeft(Tail(s))
    ELSE IF \E w \in SpaceRunes : MatchAt(s, w, 1)
    THEN LET w == CHOOSE x \in SpaceRunes : MatchAt(s, x, 1)
         IN  TrimLeft(SubStr(s, Len(w) + 1, Len(s)))
    ELSE s

RECURSIVE TrimRight(_)
TrimRight(s) ==
    IF s # << >> /\ IsSpace(s[Len(s)])
    THEN TrimRight(SubStr(s, 1, Len(s) - 1))
    ELSE IF \E w \in SpaceRunes : MatchAt(s, w, Len(s) - Len(w) + 1)
    THEN LET w == CHOOSE x \in SpaceRunes : MatchAt(s, x, Len(s) - Len(x) + 1)
         IN  TrimRight(SubStr(s, 1, Len(s) - Len(w)))
    ELSE s

\* strings.TrimSpace
TrimSpace(s) == TrimRight(TrimLeft(s))

\* the clean-up of m["parts"] when it holds no "/"
NormalizeParts(p) ==
    IF Contains(p, <<"/">>) THEN p
    ELSE ReplaceEach(
             ReplaceEach(p, << <<"-">>, <<"~">>, <<" ", "o", "f", " ">> >>,
                         <<"/">>, 1),
             << <<"[">>, <<"]">>, <<"(">>, <<")">> >>, << >>, 1)

\* strings.SplitN(parts, "/", 2)[0]: what precedes the first "/"
BeforeSlash(p) ==
    LET n == Min({ x \in 1..Len(p) : p[x] = "/" })
    IN  SubStr(p, 1, n - 1)

\* strings.SplitN(parts, "/", 2)[1]: what follows the first "/"
AfterSlash(p) ==
    LET n == Min({ x \in 1..Len(p) : p[x] = "/" })
    IN  SubStr(p, n + 1, Len(p))

DigitVal(c) ==
    CASE c = "0" -> 0 [] c = "1" -> 1 [] c = "2" -> 2 [] c = "3" -> 3
      [] c = "4" -> 4 [] c = "5" -> 5 [] c = "6" -> 6 [] c = "7" -> 7
      [] c = "8" -> 8 [] c = "9" -> 9

RECURSIVE AtoiDigits(_)
AtoiDigits(s) ==
    IF s = << >> THEN 0
    ELSE 10 * AtoiDigits(SubStr(s, 1, Len(s) - 1)) + DigitVal(s[Len(s)])

\* totalparts, _ := strconv.Atoi(partcounts[1]): 0 when it is no number
Atoi(s) ==
    IF s # << >> /\ \A n \in 1..Len(s) : IsDigit(s[n]) THEN AtoiDigits(s) ELSE 0

\* The subject parser of MakeBinaries' loop body: ok is FALSE where the
\* code logs and continues.  The expression r has no reqid group, and a
\* name is missing only when r did not match, where m is empty and the
\* generated name is the join of no values.
ParseSubject(subject) ==
    LET m     == FindStringSubmatchMap(subject)
        name  == IF m.matched THEN TrimSpace(m.name) ELSE << >>
        pm    == PartRegexFind(subject)
        hasp  == m.matched \/ pm.matched
        parts == IF m.matched THEN TrimSpace(m.parts) ELSE pm.parts
        norm  == NormalizeParts(parts)
    IN  IF ~hasp \/ ~Contains(norm, <<"/">>)
        THEN [ok |-> FALSE, name |-> << >>, number |-> << >>, total |-> << >>]
        ELSE [ok |-> TRUE, name |-> name, number |-> BeforeSlash(norm),
              total |-> AfterSlash(norm)]

(***************************************************************************)
(* Bounds and inputs                                                       *)
(***************************************************************************)

\* Part rows ever created
MaxParts == 3

\* Segment rows one Part can hold
MaxSegRows == 2

\* the two batch passes are run by one caller (serialised) in Spec
Procs == {1, 2}

Q == "\""

\* [1/1] "a.mkv", [1/2] "a.mkv", [2/2] "a.mkv" and a subject with no
\* part count
Subject11 == <<"[", "1", "/", "1", "]", " ", Q, "a", ".", "m", "k", "v", Q>>
Subject12 == <<"[", "1", "/", "2", "]", " ", Q, "a", ".", "m", "k", "v", Q>>
Subject22 == <<"[", "2", "/", "2", "]", " ", Q, "a", ".", "m", "k", "v", Q>>
SubjectNone == <<"h", "i">>

\* [1 OF 2], where only PartRegex matches and no "/" results, and [1/1],
\* where only PartRegex matches
SubjectOF == <<"[", "1", " ", "O", "F", " ", "2", "]">>
SubjectBare == <<"[", "1", "/", "1", "]">>

\* the subjects that are ingested, and what the parser makes of each
Subjects ==
    {Subject11, Subject12, Subject22, SubjectNone, SubjectOF, SubjectBare}

Parsed == [s \in Subjects |-> ParseSubject(s)]

\* the rows of the Group table
GroupTable == { <<"g">>, <<"g", "x">> }

(***************************************************************************)
(* State                                                                   *)
(***************************************************************************)

VARIABLES
    part,       \* table part: rows [id, subject, group, from, posted,
                \*   total_segments, binary_id], binary_id 0 for NULL
    segment,    \* table segment: the number of rows of each part_id
    binary,     \* table binary: rows [id, hash, name, posted, from, group,
                \*   total_parts]
    release,    \* table release: rows [id, name, search_name, posted, from,
                \*   group]
    seq,        \* the autoincrement counters of part and binary
    run,        \* per caller: the running pass, its local variables (parts,
                \*   i, binaries, dbbin) and what is recorded of the pass
                \*   (stage, quiet, again, full, e2e, resumed, solo)
    promoted,   \* history: the Binaries whose promotion committed, each
                \*   with the ids of the Parts that referenced it
    clean       \* a call of cleanReleaseName: its argument and its result

vars == <<part, segment, binary, release, seq, run, promoted, clean>>

Store == <<part, segment, binary, release>>

PartIds == 1..MaxParts

Idle ==
    [pc |-> "idle", kind |-> "none", result |-> "none",
     parts |-> << >>, i |-> 0, binaries |-> {},
     cands |-> << >>, dbbin |-> [id |-> 0, partids |-> {}],
     stage |-> "idle", quiet |-> FALSE, again |-> FALSE, full |-> FALSE,
     e2e |-> FALSE, resumed |-> FALSE, solo |-> TRUE]

Init ==
    /\ part = {}
    /\ segment = [id \in PartIds |-> 0]
    /\ binary = {}
    /\ release = {}
    /\ seq = [part |-> 1, binary |-> 1]
    /\ run = [p \in Procs |-> Idle]
    /\ promoted = {}
    /\ clean = [arg |-> << >>, res |-> << >>, done |-> FALSE]

\* a pass ends: return err, return nil, or the nil-pointer panic
Finished(loc, res) ==
    [loc EXCEPT !.pc = "done", !.result = res, !.stage = loc.pc]

CanStart(p) == run[p].pc \in {"idle", "done"}

\* no other caller is inside a pass
Alone(p) == \A q \in Procs \ {p} : run[q].pc \in {"idle", "done"}

\* caller p enters a pass: the passes under way are no longer on their own
Overlap(r, p) ==
    [q \in Procs |->
       IF q # p /\ r[q].pc \notin {"idle", "done"}
       THEN [r[q] EXCEPT !.solo = FALSE] ELSE r[q]]

\* the rows of a set of records in ascending order of id
RECURSIVE ById(_)
ById(S) ==
    IF S = {} THEN << >>
    ELSE LET r == CHOOSE x \in S : \A y \in S : x.id <= y.id
         IN  <<r>> \o ById(S \ {r})

Range(s) == { s[n] : n \in 1..Len(s) }

(***************************************************************************)
(* Ingestion                                                               *)
(***************************************************************************)

\* a store change made while a pass is under way
Disturb(r) == [p \in Procs |-> [r[p] EXCEPT !.quiet = FALSE]]

\* CreatePart: d.DB.Save(p) of a new Part with n Segments
CreatePart(subject, grp, frm, posted, total, n) ==
    /\ seq.part <= MaxParts
    /\ part' = part \cup
         {[id |-> seq.part, subject |-> subject, group |-> grp, from |-> frm,
           posted |-> posted, total_segments |-> total, binary_id |-> 0]}
    /\ segment' = [segment EXCEPT ![seq.part] = n]
    /\ seq' = [seq EXCEPT !.part = @ + 1]
    /\ run' = Disturb(run)
    /\ UNCHANGED <<binary, release, promoted, clean>>

\* one more Segment row is stored for an existing Part
AddSegment(id) ==
    /\ \E r \in part : r.id = id
    /\ segment[id] < MaxSegRows
    /\ segment' = [segment EXCEPT ![id] = @ + 1]
    /\ run' = Disturb(run)
    /\ UNCHANGED <<part, binary, release, seq, promoted, clean>>

(***************************************************************************)
(* MakeBinaries                                                            *)
(***************************************************************************)

\* xxhash64 of name + group + from + totalParts, printed in hexadecimal.
\* The 64-bit hash is taken to be free of collisions on its input, so the
\* key is represented by the concatenated input itself.
makeBinaryHash(name, grp, frm, totalParts) == name \o grp \o frm \o totalParts

\* d.DB.Where("binary_id is NULL").Find(&parts)
UngroupedParts == ById({ r \in part : r.binary_id = 0 })

\* all Parts of the two-part file "a" are stored with every Segment
FileComplete ==
    \A s \in {Subject12, Subject22} :
      \E r \in part : r.subject = s /\ segment[r.id] >= r.total_segments

\* The pass starts: the select of the ungrouped Parts fails (return err)
\* or fills the parts slice.
GrouperStart(p) ==
    /\ CanStart(p)
    /\ \E fail \in BOOLEAN :
         LET after == /\ run[p].pc = "done"
                      /\ run[p].kind = "grouper"
                      /\ run[p].result = "err"
                      /\ run[p].binaries # {}
             base  == [Idle EXCEPT !.pc = "g_loop", !.kind = "grouper",
                                   !.quiet = TRUE, !.full = FileComplete,
                                   !.resumed = after, !.solo = Alone(p)]
         IN  run' = [Overlap(run, p) EXCEPT ![p] =
               IF fail THEN Finished(base, "err")
               ELSE IF UngroupedParts = << >> THEN Finished(base, "ok")
               ELSE [base EXCEPT !.parts = UngroupedParts, !.i = 1]]
    /\ UNCHANGED <<part, segment, binary, release, seq, promoted, clean>>

GrouperNext_Abort(loc) == Finished(loc, "err")

\* the loop moves on to the next Part, or MakeBinaries returns nil
GrouperNext(loc) ==
    IF loc.i = Len(loc.parts) THEN Finished(loc, "ok")
    ELSE [loc EXCEPT !.i = @ + 1]

\* binaries[binhash] after the Part pr with parse result ps is put in it
BinaryOf(loc, pr, ps) ==
    LET h    == makeBinaryHash(ps.name, pr.group, pr.from, ps.total)
        have == { b \in loc.binaries : b.hash = h }
    IN  IF have # {}
        THEN LET bin == CHOOSE b \in have : TRUE
             IN  [bin EXCEPT !.parts = Append(@, pr)]
        ELSE [hash |-> h, id |-> 0, name |-> ps.name, posted |-> pr.posted,
              from |-> pr.from, group |-> pr.group,
              total_parts |-> Atoi(ps.total), parts |-> <<pr>>]

BinaryRow(bin, id) ==
    [id |-> id, hash |-> bin.hash, name |-> bin.name, posted |-> bin.posted,
     from |-> bin.from, group |-> bin.group, total_parts |-> bin.total_parts]

\* the id d.DB.Save(bin) leaves in bin: a new row's for a zero id
SavedId(bin) == IF bin.id = 0 THEN seq.binary ELSE bin.id

\* table binary after d.DB.Save(bin): an insert for a zero primary key,
\* else an update of the row of that key
SaveBinaryRow(bin) ==
    IF bin.id = 0 THEN binary \cup {BinaryRow(bin, seq.binary)}
    ELSE { IF b.id = bin.id THEN BinaryRow(bin, bin.id) ELSE b : b \in binary }

\* table part after d.DB.Save(bin): every Part of bin.Parts is saved with
\* the Binary's key as its binary_id
SavePartRows(bin) ==
    { IF \E n \in 1..Len(bin.parts) : bin.parts[n].id = r.id
      THEN LET n == CHOOSE x \in 1..Len(bin.parts) : bin.parts[x].id = r.id
           IN  [bin.parts[n] EXCEPT !.binary_id = SavedId(bin)]
      ELSE r : r \in part }

SaveFailed_Ignored(loc) ==
    IF loc.i = Len(loc.parts) THEN Finished(loc, "ok")
    ELSE [loc EXCEPT !.i = @ + 1]

\* d.DB.Save(binaries[binhash]) failed: return err
SaveFailed(loc) == Finished(loc, "err")

\* One turn of the loop over parts: parse the subject, put the Part in its
\* in-progress Binary and save that Binary; a failed save returns err.
GrouperStep(p) ==
    LET loc == run[p]
        pr  == loc.parts[loc.i]
        ps  == Parsed[pr.subject]
        bin == BinaryOf(loc, pr, ps)
    IN  /\ loc.pc = "g_loop"
        /\ IF ~ps.ok
           THEN /\ run' = [run EXCEPT ![p] = GrouperNext(loc)]
                /\ UNCHANGED <<part, segment, binary, release, seq, promoted, clean>>
           ELSE \E fail \in BOOLEAN :
                  IF fail
                  THEN /\ run' = [run EXCEPT ![p] = SaveFailed(loc)]
                       /\ UNCHANGED <<part, segment, binary, release, seq,
                                      promoted, clean>>
                  ELSE /\ binary' = SaveBinaryRow(bin)
                       /\ part' = SavePartRows(bin)
                       /\ seq' = IF bin.id = 0
                                 THEN [seq EXCEPT !.binary = @ + 1] ELSE seq
                       /\ run' = [Disturb(run) EXCEPT ![p] = GrouperNext(
                            [loc EXCEPT !.binaries =
                               { b \in @ : b.hash # bin.hash } \cup
                               {[bin EXCEPT !.id = SavedId(bin)]}])]
                       /\ UNCHANGED <<segment, release, promoted, clean>>

(***************************************************************************)
(* MakeReleases: the Completeness Evaluator                                *)
(***************************************************************************)

\* the completeness threshold bound to the query's "?"
Threshold == 100

\* The rows of the inner select that join Binary id: part INNER JOIN
\* segment GROUP BY part.id keeps the Parts with at least one Segment row.
JoinedParts(id) == { r \in part : r.binary_id = id /\ segment[r.id] >= 1 }

\* sum(part.available_segments)
RECURSIVE SumAvailable(_)
SumAvailable(S) ==
    IF S = {} THEN 0
    ELSE LET r == CHOOSE x \in S : TRUE
         IN  segment[r.id] + SumAvailable(S \ {r})

\* sum(part.total_segments)
RECURSIVE SumTotal(_)
SumTotal(S) ==
    IF S = {} THEN 0
    ELSE LET r == CHOOSE x \in S : TRUE
         IN  r.total_segments + SumTotal(S \ {r})

HavingCount_Off(b, S) == TRUE

\* HAVING count(*) >= binary.total_parts
HavingCount(b, S) == Cardinality(S) >= b.total_parts

\* (sum(available_segments) / sum(total_segments)) * 100 >= ?, the
\* division that of two integers (NULL, hence not true, for a zero divisor)
HavingPercentage(S) ==
    /\ SumTotal(S) # 0
    /\ (SumAvailable(S) \div SumTotal(S)) * 100 >= Threshold

\* Binary row b is in the query's result
IsReady(b) ==
    LET S == JoinedParts(b.id)
    IN  /\ S # {}
        /\ HavingCount(b, S)
        /\ HavingPercentage(S)

ReadyBinaries == { b \in binary : IsReady(b) }

\* a row as Scan(&binaries) fills it: the query selects id, name, posted,
\* total_parts and group, the other fields keep their zero value
Scanned(b) ==
    [id |-> b.id, name |-> b.name, posted |-> b.posted,
     total_parts |-> b.total_parts, group |-> b.group, from |-> << >>]

\* the results ORDER BY binary.posted DESC allows
Orderings(S) ==
    { s \in [1..Cardinality(S) -> S] :
        /\ \A m, n \in 1..Cardinality(S) : m # n => s[m] # s[n]
        /\ \A m, n \in 1..Cardinality(S) : m < n => s[m].posted >= s[n].posted }

(***************************************************************************)
(* MakeReleases: the promotion loop                                        *)
(***************************************************************************)

\* The pass starts: the query fails (return err) or fills binaries.
PromoterStart(p) ==
    /\ CanStart(p)
    /\ \E fail \in BOOLEAN, s \in Orderings(ReadyBinaries) :
         LET twice == /\ run[p].pc = "done"
                      /\ run[p].kind = "promoter"
                      /\ run[p].result = "ok"
                      /\ run[p].quiet
             after == /\ run[p].pc = "done"
                      /\ run[p].kind = "grouper"
                      /\ run[p].result = "ok"
                      /\ run[p].quiet
                      /\ run[p].full
             base  == [Idle EXCEPT !.pc = "r_loop", !.kind = "promoter",
                                   !.quiet = TRUE, !.again = twice,
                                   !.e2e = after, !.solo = Alone(p)]
         IN  run' = [Overlap(run, p) EXCEPT ![p] =
               IF fail THEN Finished(base, "err")
               ELSE IF s = << >> THEN Finished(base, "ok")
               ELSE [base EXCEPT !.i = 1,
                                 !.cands = [n \in 1..Len(s) |-> Scanned(s[n])]]]
    /\ UNCHANGED <<part, segment, binary, release, seq, promoted, clean>>

\* the loop moves on to the next candidate, or MakeReleases returns nil
PromoterNext(loc) ==
    IF loc.i = Len(loc.cands) THEN Finished(loc, "ok")
    ELSE [loc EXCEPT !.pc = "r_loop", !.i = @ + 1]

ReleaseExists_Never(b) == FALSE

\* d.DB.Where("name = ? and posted = ?", b.Name, b.Posted).First(&dbrel)
\* finds a row
ReleaseExists(b) == \E r \in release : r.name = b.name /\ r.posted = b.posted

\* See if a Release already exists for this binary name/date: a store
\* error returns err, a found Release skips the candidate.
PromoterLookup(p) ==
    LET loc == run[p]
        b   == loc.cands[loc.i]
    IN  /\ loc.pc = "r_loop"
        /\ \E fail \in BOOLEAN :
             run' = [run EXCEPT ![p] =
               IF fail THEN Finished(loc, "err")
               ELSE IF ReleaseExists(b) THEN PromoterNext(loc)
               ELSE [loc EXCEPT !.pc = "r_load"]]
        /\ UNCHANGED <<part, segment, binary, release, seq, promoted, clean>>

\* FindGroupByName(b.Group) returns a Group
GroupFound(name) == name \in GroupTable

\* First(dbbin, b.ID): the Binary row is read; a failure, or no row of
\* that id, returns err.  No transaction spans this read and the ones that
\* follow it.
PromoterLoad(p) ==
    LET loc == run[p]
        b   == loc.cands[loc.i]
    IN  /\ loc.pc = "r_load"
        /\ \E loadFail \in BOOLEAN :
             run' = [run EXCEPT ![p] =
               IF loadFail \/ ~\E d \in binary : d.id = b.id
               THEN Finished(loc, "err")
               ELSE [loc EXCEPT !.pc = "r_preload", !.dbbin.id = b.id]]
        /\ UNCHANGED <<part, segment, binary, release, seq, promoted, clean>>

\* Preload("Parts") and Preload("Parts.Segments") read the Parts that
\* reference the Binary now, and their Segments (a failure returns err);
\* the Group is looked up (grp is nil when that fails) and the manifest is
\* built (a failure returns err); building newrel then dereferences grp.
\* The Segment rows read, Size and NZB are not modelled, and the Group
\* table does not change, so the reads after that of the Parts are taken
\* in the same step.
PromoterPreload(p) ==
    LET loc == run[p]
        b   == loc.cands[loc.i]
    IN  /\ loc.pc = "r_preload"
        /\ \E loadFail \in BOOLEAN, grpFail \in BOOLEAN, nzbFail \in BOOLEAN :
             run' = [run EXCEPT ![p] =
               IF loadFail THEN Finished(loc, "err")
               ELSE IF nzbFail THEN Finished(loc, "err")
               ELSE IF grpFail \/ ~GroupFound(b.group)
               THEN Finished(loc, "panic")
               ELSE [loc EXCEPT !.pc = "r_tx",
                       !.dbbin = [id |-> b.id,
                                  partids |-> { r.id : r \in
                                     { x \in part : x.binary_id = b.id } }]]]
        /\ UNCHANGED <<part, segment, binary, release, seq, promoted, clean>>

\* newrel for candidate b
NewRelease(b) ==
    [id |-> Cardinality(release) + 1, name |-> b.name,
     search_name |-> cleanReleaseName(b.name), posted |-> b.posted,
     from |-> b.from, group |-> b.group]

TheStore ==
    [part |-> part, segment |-> segment, binary |-> binary,
     release |-> release]

\* tx.Save(newrel)
TxSaveRelease(st, rel) == [st EXCEPT !.release = @ \cup {rel}]

TxDeleteParts_All(st, id) == [st EXCEPT !.part = {}]

\* tx.Where("binary_id = ?", dbbin.ID).Delete(types.Part{})
TxDeleteParts(st, id) ==
    [st EXCEPT !.part = { r \in @ : r.binary_id # id }]

TxDeleteSegments_None(st, partids) == st

\* tx.Where("part_id in (?)", partids).Delete(types.Segment{})
TxDeleteSegments(st, partids) ==
    [st EXCEPT !.segment = [id \in PartIds |->
                              IF id \in partids THEN 0 ELSE @[id]]]

\* tx.Delete(dbbin)
TxDeleteBinary(st, id) ==
    [st EXCEPT !.binary = { b \in @ : b.id # id }]

Rollback_Missing(before, now) == now

\* tx.Rollback(): the store as it was at d.DB.Begin()
Rollback(before, now) == before

\* The transaction of one candidate.  failAt is the statement that fails
\* (0: none, the transaction commits; 5: tx.Commit(), nothing is written).
Transaction(st, rel, dbbin, failAt) ==
    LET s1 == TxSaveRelease(st, rel)
        s2 == TxDeleteParts(s1, dbbin.id)
        s3 == TxDeleteSegments(s2, dbbin.partids)
        s4 == TxDeleteBinary(s3, dbbin.id)
    IN  CASE failAt = 0 -> s4
          [] failAt = 1 -> Rollback(st, st)
          [] failAt = 2 -> Rollback(st, s1)
          [] failAt = 3 -> Rollback(st, s2)
          [] failAt = 4 -> Rollback(st, s3)
          [] failAt = 5 -> st

\* Begin ... Commit for the current candidate: it commits and the loop
\* goes on, or a statement fails, the transaction is rolled back and
\* MakeReleases returns err.  The result of tx.Commit() is not looked at:
\* when it fails the loop goes on as well.
PromoterTx(p) ==
    LET loc == run[p]
        b   == loc.cands[loc.i]
    IN  /\ loc.pc = "r_tx"
        /\ \E failAt \in 0..5 :
             LET st == Transaction(TheStore, NewRelease(b), loc.dbbin, failAt)
             IN  /\ part' = st.part
                 /\ segment' = st.segment
                 /\ binary' = st.binary
                 /\ release' = st.release
                 /\ IF failAt = 0
                    THEN /\ run' = [Disturb(run) EXCEPT ![p] = PromoterNext(loc)]
                         /\ promoted' = promoted \cup
                              {[id |-> loc.dbbin.id,
                                partids |-> { r.id : r \in
                                  { x \in part : x.binary_id = loc.dbbin.id } },
                                name |-> b.name, posted |-> b.posted]}
                    ELSE /\ run' = [run EXCEPT ![p] =
                                   IF failAt = 5 THEN PromoterNext(loc)
                                   ELSE Finished(loc, "err")]
                         /\ UNCHANGED promoted
        /\ UNCHANGED <<seq, clean>>

(***************************************************************************)
(* Specification: ingestion at any time, the passes one after the other    *)
(***************************************************************************)

\* CreatePart and AddSegment with Parts drawn from the given subjects,
\* groups, posters, posting times and segment totals
Ingest(subjects, groups, posters, times, totals) ==
    \/ \E s \in subjects, g \in groups, f \in posters, t \in times,
          n \in totals, k \in 0..MaxSegRows :
         CreatePart(s, g, f, t, n, k)
    \/ \E id \in PartIds : AddSegment(id)

Pass(p) ==
    \/ GrouperStart(p)
    \/ GrouperStep(p)
    \/ PromoterStart(p)
    \/ PromoterLookup(p)
    \/ PromoterLoad(p)
    \/ PromoterPreload(p)
    \/ PromoterTx(p)

\* the Parts of one two-part file, and Parts that do not parse
Next ==
    \/ Ingest({Subject12, Subject22, SubjectNone}, {<<"g">>}, {<<"p">>},
           {1}, {2})
    \/ Pass(1)

Spec == Init /\ [][Next]_vars

\* Parts of one-part files posted at two times: several Binaries are ready
NextDup ==
    \/ Ingest({Subject11}, {<<"g">>}, {<<"p">>}, {1, 2}, {1})
    \/ Pass(1)

SpecDup == Init /\ [][NextDup]_vars

\* Parts of two segment totals: a Binary's Parts differ in availability
NextEval ==
    \/ Ingest({Subject12}, {<<"g">>}, {<<"p">>}, {1}, {1, 2})
    \/ Pass(1)

SpecEval == Init /\ [][NextEval]_vars

\* a group and a poster whose names run into each other when concatenated
NextHash ==
    \/ Ingest({Subject12}, {<<"g">>}, {<<"x", "p">>}, {1}, {1})
    \/ Ingest({Subject12}, {<<"g", "x">>}, {<<"p">>}, {1}, {1})
    \/ Pass(1)

SpecHash == Init /\ [][NextHash]_vars

\* subjects the parser rejects, and one it accepts without a name
NextParse ==
    \/ Ingest({SubjectNone, SubjectOF, SubjectBare}, {<<"g">>}, {<<"p">>},
           {1}, {1})
    \/ Pass(1)

SpecParse == Init /\ [][NextParse]_vars

(***************************************************************************)
(* Specification: two callers whose Promoter passes interleave             *)
(***************************************************************************)

\* the number of Parts stored while two callers run
MaxConcParts == 2

\* CreatePart of a one-part file with its Segment
CreateFile ==
    /\ seq.part <= MaxConcParts
    /\ CreatePart(Subject11, <<"g">>, <<"p">>, 1, 1, 1)

\* caller p is inside MakeBinaries
Grouping(p) == run[p].kind = "grouper" /\ run[p].pc = "g_loop"

\* caller 1 calls MakeBinaries while no other pass is under way
StartGrouperAlone == Alone(1) /\ GrouperStart(1)

\* caller p calls MakeReleases while MakeBinaries is not under way
StartPromoter(p) == ~Grouping(1) /\ PromoterStart(p)

\* No lock is taken by either function.  Parts of one-part files are
\* stored with their Segment; caller 1 runs MakeBinaries while no pass of
\* caller 2 is under way; MakeReleases is run by both callers with their
\* steps in any order.
NextConc ==
    \/ CreateFile
    \/ StartGrouperAlone
    \/ GrouperStep(1)
    \/ \E p \in Procs :
         \/ StartPromoter(p)
         \/ PromoterLookup(p)
         \/ PromoterLoad(p)
         \/ PromoterPreload(p)
         \/ PromoterTx(p)

SpecConc == Init /\ [][NextConc]_vars

(***************************************************************************)
(* cleanReleaseName on its own                                             *)
(***************************************************************************)

\* the longest argument
MaxCleanLen == 4

\* bytes of denylist characters, of separators and of other characters
CleanAlphabet ==
    {"#", "xC2", "xA7", "xA9", "xC3", "x96", "_", ".", "-", "a"}

CleanArgs ==
    UNION { [1..n -> CleanAlphabet] : n \in 0..MaxCleanLen }

InitClean ==
    /\ part = {}
    /\ segment = [id \in PartIds |-> 0]
    /\ binary = {}
    /\ release = {}
    /\ seq = [part |-> 1, binary |-> 1]
    /\ run = [p \in Procs |-> Idle]
    /\ promoted = {}
    /\ \E s \in CleanArgs : clean = [arg |-> s, res |-> << >>, done |-> FALSE]

CallClean ==
    /\ ~clean.done
    /\ clean' = [clean EXCEPT !.res = cleanReleaseName(clean.arg),
                              !.done = TRUE]
    /\ UNCHANGED <<part, segment, binary, release, seq, run, promoted>>

SpecClean == InitClean /\ [][CallClean]_vars

(***************************************************************************)
(* Properties                                                              *)
(***************************************************************************)

\* the (name, group, poster, total-parts) tuple the parser gives a Part
TupleOf(r) ==
    LET ps == Parsed[r.subject]
    IN  <<ps.name, r.group, r.from, ps.total>>

Parses(r) == Parsed[r.subject].ok

\* the Binary rows of a Part's tuple
BinariesOf(r) ==
    { b \in binary : /\ b.name = TupleOf(r)[1]
                     /\ b.group = r.group
                     /\ b.from = r.from
                     /\ b.total_parts = Atoi(TupleOf(r)[4]) }

GrouperDone(p) ==
    run[p].pc = "done" /\ run[p].kind = "grouper" /\ run[p].result = "ok"

PromoterDone(p) ==
    run[p].pc = "done" /\ run[p].kind = "promoter" /\ run[p].result = "ok"

\* C1: when a Grouper run has returned nil, every Part that was ungrouped
\* at its start and parses has exactly one Binary row of its tuple in the
\* store, and the Part's binary_id is that row's id.
C1_OneBinaryPerTuple ==
    \A p \in Procs :
      GrouperDone(p) =>
        \A n \in 1..Len(run[p].parts) :
          LET r0 == run[p].parts[n]
          IN  Parses(r0) =>
                /\ Cardinality(BinariesOf(r0)) = 1
                /\ \A r \in part :
                     r.id = r0.id => \E b \in BinariesOf(r0) : r.binary_id = b.id

\* C2: within a Grouper run two Parts are in the same in-progress Binary
\* exactly if their parsed tuples are equal.
C2_SameBinaryIffSameTuple ==
    \A p \in Procs :
      run[p].kind = "grouper" =>
        \A b1, b2 \in run[p].binaries :
          \A m \in 1..Len(b1.parts), n \in 1..Len(b2.parts) :
            (b1.hash = b2.hash) <=> (TupleOf(b1.parts[m]) = TupleOf(b2.parts[n]))

\* all Parts that reference Binary id
PartsOf(id) == { r \in part : r.binary_id = id }

\* the Parts of Binary id that hold at least one Segment row
PartsWithSegments(id) == { r \in PartsOf(id) : segment[r.id] > 0 }

\* the query of a Promoter pass has just run: no row has changed since
Fresh(p) ==
    /\ run[p].kind = "promoter"
    /\ run[p].quiet
    /\ \/ run[p].pc = "r_loop" /\ run[p].i = 1
       \/ run[p].pc = "done" /\ run[p].i = 0 /\ run[p].result = "ok"

Returned(p) == { run[p].cands[n].id : n \in 1..Len(run[p].cands) }

\* C3 as stated: the Evaluator returns a Binary exactly if the Parts
\* referencing it are at least total_parts and, summed over all of them,
\* available / total * 100 >= 100.
C3_AsClaimed ==
    \A p \in Procs :
      Fresh(p) =>
        Returned(p) =
          { b.id : b \in
              { x \in binary :
                  /\ Cardinality(PartsOf(x.id)) >= x.total_parts
                  /\ SumTotal(PartsOf(x.id)) > 0
                  /\ SumAvailable(PartsOf(x.id)) * 100
                       >= 100 * SumTotal(PartsOf(x.id)) } }

\* C3 amended: the Evaluator returns a Binary exactly if its Parts that
\* hold at least one Segment row are at least total_parts (and at least
\* one) and, summed over those Parts, available / total * 100 >= 100.
C3_Evaluator ==
    \A p \in Procs :
      Fresh(p) =>
        Returned(p) =
          { b.id : b \in
              { x \in binary :
                  /\ Cardinality(PartsWithSegments(x.id)) >= x.total_parts
                  /\ SumTotal(PartsWithSegments(x.id)) > 0
                  /\ SumAvailable(PartsWithSegments(x.id)) * 100
                       >= 100 * SumTotal(PartsWithSegments(x.id)) } }

\* the query returned one of two Binaries, the other has a Part without
\* Segments
C3_Witness ==
    \E p \in Procs :
      /\ Fresh(p)
      /\ Cardinality(Returned(p)) = 1
      /\ \E b \in binary : /\ b.id \notin Returned(p)
                           /\ PartsOf(b.id) # PartsWithSegments(b.id)

\* the part number k of "k/n" in a Part's subject
PartNumber(r) == Atoi(Parsed[r.subject].number)

\* C4: a Binary the Evaluator returns has a Part of every number
\* 1..total_parts, and none of its Parts holds fewer Segments than its
\* total_segments.
C4_NoIncompleteCandidate ==
    \A p \in Procs :
      Fresh(p) =>
        \A n \in 1..Len(run[p].cands) :
          LET c == run[p].cands[n]
          IN  /\ \A k \in 1..c.total_parts :
                   \E r \in PartsOf(c.id) : PartNumber(r) = k
              /\ \A r \in PartsOf(c.id) : segment[r.id] >= r.total_segments

ReleasesOf(b) == { r \in release : r.name = b.name /\ r.posted = b.posted }

\* C5: the store never holds two Releases of one (name, posted) pair, and
\* when a Promoter pass has returned nil every Binary that is still ready,
\* having been skipped, has exactly one Release of its pair.
C5_OneReleasePerNamePosted ==
    /\ \A r1, r2 \in release :
         (r1.name = r2.name /\ r1.posted = r2.posted) => r1 = r2
    /\ \A p \in Procs :
         (PromoterDone(p) /\ run[p].quiet) =>
           \A b \in ReadyBinaries : Cardinality(ReleasesOf(b)) = 1

\* every promoted Binary has its Release and no row of it is left
PromotedGone ==
    \A h \in promoted :
      /\ ReleasesOf(h) # {}
      /\ \A r \in part : r.binary_id # h.id
      /\ \A id \in h.partids : segment[id] = 0
      /\ \A b \in binary : b.id # h.id

\* a step inserts no Release and deletes nothing, or it inserts the one
\* Release of a Binary and deletes that Binary, the Parts referencing it
\* and all their Segments
Together ==
    LET added == release' \ release
        lostB == { b \in binary : \A x \in binary' : x.id # b.id }
        lostP == { r \in part : \A x \in part' : x.id # r.id }
        lostS == { id \in PartIds : segment'[id] < segment[id] }
    IN  IF added = {}
        THEN lostB = {} /\ lostP = {} /\ lostS = {}
        ELSE \E b \in binary :
               /\ Cardinality(added) = 1
               /\ \A r \in added : r.name = b.name /\ r.posted = b.posted
               /\ lostB = {b}
               /\ lostP = PartsOf(b.id)
               /\ \A r \in PartsOf(b.id) : segment'[r.id] = 0

\* C6: the Release insert and the three deletes of a promotion happen in
\* one step or not at all, and in every state after a promotion committed
\* the Release exists and no Part, Segment or Binary row of it remains.
C6_PromotionAtomic == [][Together /\ PromotedGone']_vars

\* a Binary whose Parts held Segments has been promoted
C6_Witness ==
    \E h \in promoted : h.partids # {} /\ ReleasesOf(h) # {}

\* C7: when a statement of a candidate's transaction fails, no table has
\* changed, no Release of the candidate exists, and (nothing having been
\* ingested since the pass began) the Evaluator returns the Binary again.
C7_RollbackRestores ==
    [][\A p \in Procs :
         (run[p].pc = "r_tx" /\ run'[p].pc = "done" /\ run'[p].result = "err")
         => /\ Store' = Store
            /\ ReleasesOf(run[p].cands[run[p].i])' = {}
            /\ run[p].quiet =>
                 \E b \in ReadyBinaries' : b.id = run[p].cands[run[p].i].id]_vars

\* a pass ended in a failed transaction and its Binary is ready as before
C7_Witness ==
    \E p \in Procs :
      /\ run[p].pc = "done" /\ run[p].stage = "r_tx" /\ run[p].result = "err"
      /\ run[p].quiet
      /\ \E b \in ReadyBinaries : b.id = run[p].dbbin.id
      /\ PartsOf(run[p].dbbin.id) # {}

\* a step of the loop of a Promoter pass
LoopStep(p) ==
    /\ run[p].pc \in {"r_loop", "r_load", "r_preload", "r_tx"}
    /\ run'[p].pc # run[p].pc \/ run'[p].i # run[p].i

\* C8: when a Promoter pass has returned nil with no other store change,
\* every promoted Binary has exactly one Release and no row left, and no
\* step of a Promoter pass started right after it changes a row.
C8_PromoterIdempotent ==
    [][\A p \in Procs :
         /\ (PromoterDone(p) /\ run[p].quiet)' =>
              (PromotedGone /\ \A h \in promoted :
                                 Cardinality(ReleasesOf(h)) = 1)'
         /\ (run[p].again /\ LoopStep(p)) => Store' = Store]_vars

\* C9: when both Parts of the file were stored with all Segments before a
\* Grouper pass, and that pass and then a Promoter pass returned nil with
\* no ingestion meanwhile, the file's Release exists and none of its Parts
\* and Segments is left.
C9_EndToEnd ==
    \A p \in Procs :
      (PromoterDone(p) /\ run[p].e2e /\ run[p].quiet) =>
        /\ \E r \in release : r.name = <<"a">>
        /\ \A r \in part : r.subject \notin {Subject12, Subject22}
        /\ \A id \in PartIds : (\A r \in part : r.id # id) => segment[id] = 0

\* the denylist characters and the separators, as bytes
Denylist ==
    { <<"#">>, <<"@">>, <<"$">>, <<"%">>, <<"^">>, <<"xC2", "xA7">>,
      <<"xC2", "xA8">>, <<"xC2", "xA9">>, <<"xC3", "x96">> }

Separators == {"_", ".", "-"}

\* the string read character by character: denylist characters dropped,
\* separators turned into spaces, the rest kept
RECURSIVE CleanChars(_)
CleanChars(s) ==
    IF s = << >> THEN << >>
    ELSE IF \E d \in Denylist : MatchAt(s, d, 1)
    THEN LET d == CHOOSE x \in Denylist : MatchAt(s, x, 1)
         IN  CleanChars(SubStr(s, Len(d) + 1, Len(s)))
    ELSE IF Head(s) \in Separators THEN <<" ">> \o CleanChars(Tail(s))
    ELSE <<Head(s)>> \o CleanChars(Tail(s))

\* well-formed UTF-8 over the bytes of the model: a lead byte is followed
\* by a continuation byte, which follows nothing else
LeadBytes == {"xC2", "xC3"}
ContBytes == {"xA7", "xA8", "xA9", "x96"}

WellFormed(s) ==
    \A n \in 1..Len(s) :
      /\ s[n] \in LeadBytes => (n < Len(s) /\ s[n + 1] \in ContBytes)
      /\ s[n] \in ContBytes => (n > 1 /\ s[n - 1] \in LeadBytes)

NoneLeft(s) ==
    /\ \A d \in Denylist : ~Contains(s, d)
    /\ \A n \in 1..Len(s) : s[n] \notin Separators

\* "My.Movie_Name-2020#@" and "My Movie Name 2020"
MyMovie ==
    <<"M", "y", ".", "M", "o", "v", "i", "e", "_", "N", "a", "m", "e", "-",
      "2", "0", "2", "0", "#", "@">>
MyMovieClean ==
    <<"M", "y", " ", "M", "o", "v", "i", "e", " ", "N", "a", "m", "e", " ",
      "2", "0", "2", "0">>

\* C10 as stated: for every argument the result is the argument with the
\* denylist characters dropped and the separators turned into spaces, it
\* holds none of them, and cleaning it again changes nothing.
C10_AsClaimed ==
    clean.done =>
      /\ clean.res = CleanChars(clean.arg)
      /\ NoneLeft(clean.res)
      /\ cleanReleaseName(clean.res) = clean.res
      /\ cleanReleaseName(MyMovie) = MyMovieClean

\* C10 amended: the same for every argument that is well-formed UTF-8.
C10_CleanReleaseName ==
    (clean.done /\ WellFormed(clean.arg)) =>
      /\ clean.res = CleanChars(clean.arg)
      /\ NoneLeft(clean.res)
      /\ cleanReleaseName(clean.res) = clean.res
      /\ cleanReleaseName(MyMovie) = MyMovieClean

\* a two-byte denylist character and a separator were cleaned away
C10_Witness ==
    /\ clean.done
    /\ clean.arg = <<"a", ".", "xC2", "xA7">>
    /\ clean.res = <<"a", " ">>

\* C11: a failed Group lookup does not stop MakeReleases: no pass ends at
\* the lookup of a candidate's Group, the candidate goes on to its
\* transaction and the loop to the next candidates.
C11_GroupFailureSwallowed ==
    \A p \in Procs :
      ~(/\ run[p].pc = "done" /\ run[p].stage = "r_preload"
        /\ run[p].result = "panic")

\* C12: a candidate whose transaction failed and was rolled back does not
\* end the pass while later candidates of the Evaluator's output are left:
\* a pass that returned from a failed transaction was at its last candidate.
C12_LaterCandidatesProcessed ==
    \A p \in Procs :
      (run[p].pc = "done" /\ run[p].stage = "r_tx" /\ run[p].result = "err")
      => run[p].i = Len(run[p].cands)

\* the row of table part with the id of Part r
RowOf(r) == { x \in part : x.id = r.id }

\* a step of the loop of a Grouper pass
GrouperLoopStep(p) ==
    /\ run[p].pc = "g_loop"
    /\ run'[p].pc # run[p].pc \/ run'[p].i # run[p].i

\* C13: a turn of the loop for a Part whose subject does not parse changes
\* no row and goes on to the next Part or returns nil; when the pass has
\* returned nil, each such Part is still ungrouped and each Part of the run
\* that parses is grouped.
C13_ParseFailureSkipped ==
    [][\A p \in Procs :
         /\ (GrouperLoopStep(p) /\ ~Parses(run[p].parts[run[p].i])) =>
              /\ Store' = Store
              /\ run'[p].result # "err"
              /\ \/ run'[p].pc = "g_loop" /\ run'[p].i = run[p].i + 1
                 \/ run'[p].pc = "done" /\ run[p].i = Len(run[p].parts)
         /\ GrouperDone(p)' =>
              (\A n \in 1..Len(run[p].parts) :
                 \A x \in RowOf(run[p].parts[n]) :
                   Parses(x) <=> x.binary_id # 0)']_vars

\* a pass returned nil over a Part that fails for want of a part count,
\* one that fails for want of a "/", and one that was grouped after them
C13_Witness ==
    \E p \in Procs :
      /\ GrouperDone(p)
      /\ Len(run[p].parts) = 3
      /\ run[p].parts[1].subject = SubjectNone
      /\ run[p].parts[2].subject = SubjectOF
      /\ run[p].parts[3].subject = SubjectBare
      /\ \E x \in part : x.id = run[p].parts[3].id /\ x.binary_id # 0
      /\ \E x \in part : x.id = run[p].parts[1].id /\ x.binary_id = 0

\* a Grouper pass has returned an error
GrouperFailed(p) ==
    run[p].pc = "done" /\ run[p].kind = "grouper" /\ run[p].result = "err"

\* C14: when a Grouper pass has returned a store error, the Part it failed
\* at and the Parts after it are ungrouped as before, and every Part before
\* it that parses references a Binary row that is in the store; a pass that
\* returned nil has grouped every Part of its run that parses.
C14_StoreErrorAborts ==
    \A p \in Procs :
      /\ GrouperFailed(p) =>
           \A n \in 1..Len(run[p].parts) :
             \A x \in RowOf(run[p].parts[n]) :
               /\ n >= run[p].i => x.binary_id = 0
               /\ (n < run[p].i /\ Parses(x)) =>
                    \E b \in binary : b.id = x.binary_id
      /\ GrouperDone(p) =>
           \A n \in 1..Len(run[p].parts) :
             \A x \in RowOf(run[p].parts[n]) : Parses(x) => x.binary_id # 0

\* a pass failed at its second Part after it had saved the first
C14_Witness ==
    \E p \in Procs :
      /\ GrouperFailed(p)
      /\ run[p].i = 2
      /\ \E x \in RowOf(run[p].parts[1]) :
           \E b \in binary : b.id = x.binary_id
      /\ \E x \in RowOf(run[p].parts[2]) : x.binary_id = 0

\* C15: when a Grouper pass stopped at a store error after it had saved
\* some Parts, and the next Grouper pass has returned nil, all grouped
\* Parts of one tuple reference one and the same Binary.
C15_GroupingResumable ==
    \A p \in Procs :
      (GrouperDone(p) /\ run[p].resumed) =>
        \A x, y \in part :
          (/\ Parses(x) /\ Parses(y)
           /\ TupleOf(x) = TupleOf(y) /\ x.group = y.group /\ x.from = y.from
           /\ x.binary_id # 0 /\ y.binary_id # 0)
          => x.binary_id = y.binary_id

\* C16: when a Release of the candidate's (name, posted) exists, the lookup
\* step skips the candidate: no row changes, the candidate is not loaded,
\* and its Binary is returned by the Evaluator as before.
C16_DuplicateSkipped ==
    [][\A p \in Procs :
         (/\ run[p].pc = "r_loop" /\ LoopStep(p)
          /\ ReleasesOf(run[p].cands[run[p].i]) # {}
          /\ run'[p].result # "err")
         => /\ Store' = Store
            /\ run'[p].pc # "r_load"
            /\ \A b \in ReadyBinaries :
                 b.id = run[p].cands[run[p].i].id => b \in ReadyBinaries']_vars

\* a second pass in a row returned nil after it skipped every candidate,
\* each of which is still ready with its Parts
C16_Witness ==
    \E p \in Procs :
      /\ PromoterDone(p) /\ run[p].again /\ run[p].quiet
      /\ Len(run[p].cands) >= 1
      /\ \A n \in 1..Len(run[p].cands) :
           /\ ReleasesOf(run[p].cands[n]) # {}
           /\ PartsOf(run[p].cands[n].id) # {}
           /\ \E b \in ReadyBinaries : b.id = run[p].cands[n].id

\* C17: the step that commits the promotion of a Binary keeps every Part
\* that does not reference it, the Segments of every such Part, every
\* other Binary row and every Release there was, whatever was ingested
\* during the pass.
C17_PromotionFrame ==
    [][\A p \in Procs :
         (run[p].pc = "r_tx" /\ LoopStep(p) /\ release' # release) =>
           LET own == PartsOf(run[p].dbbin.id)
           IN  /\ \A x \in part \ own : x \in part'
               /\ \A id \in PartIds :
                    (\A x \in own : x.id # id) => segment'[id] = segment[id]
               /\ \A b \in binary : b.id # run[p].dbbin.id => b \in binary'
               /\ release \subseteq release']_vars

\* the first candidate of a pass was promoted while Parts were ingested:
\* an ungrouped Part with Segments and the Parts of the next candidate stay
C17_Witness ==
    \E p \in Procs :
      /\ run[p].kind = "promoter" /\ run[p].pc = "r_loop" /\ run[p].i = 2
      /\ ~run[p].quiet
      /\ \E h \in promoted : h.id = run[p].cands[1].id
      /\ \E x \in part : x.binary_id = 0 /\ segment[x.id] > 0
      /\ \E y \in part : y.binary_id = run[p].cands[2].id /\ segment[y.id] > 0

\* C20: the Release a promotion inserts has the name, the posting time and
\* the poster of the Binary it is promoted from.
C20_ReleaseCarriesBinary ==
    [][\A p \in Procs :
         (run[p].pc = "r_tx" /\ LoopStep(p) /\ release' # release) =>
           \A r \in release' \ release :
             \E b \in binary :
               /\ b.id = run[p].dbbin.id
               /\ r.name = b.name /\ r.posted = b.posted /\ r.from = b.from]_vars

\* C18: a Release of a (name, posted) pair that has a Release already is
\* inserted only by a Promoter pass that overlapped another caller's pass;
\* a pass that ran on its own from its query to the commit inserts none.
C18_DuplicateNeedsOverlap ==
    [][(\E r \in release' \ release : ReleasesOf(r) # {}) =>
         \E p \in Procs :
           run[p].pc = "r_tx" /\ LoopStep(p) /\ ~run[p].solo]_vars

\* two Releases of one (name, posted) pair are in the store
C18_Witness ==
    \E r1, r2 \in release :
      r1 # r2 /\ r1.name = r2.name /\ r1.posted = r2.posted

\* C19: no Binary row has the empty string as its name.
C19_BinaryNameNonEmpty == \A b \in binary : b.name # << >>

====
